---- MODULE Spec2Model ----
(***************************************************************************)
(* PointPairContactInfo<T> (multibody/plant/contact_info.h): a value type  *)
(* carrying the contact response between two bodies.  The model keeps a    *)
(* small pool of objects of the type and the operations the header gives   *)
(* them: the seven-argument constructor, the defaulted copy and move       *)
(* operations and the seven accessors.                                     *)
(*                                                                         *)
(* Scalars are fixed-point integers.  A scalar of T = double is an         *)
(* integer; a scalar of T = AutoDiffXd is a value with its vector of       *)
(* partial derivatives.                                                    *)
(***************************************************************************)
EXTENDS Integers, Sequences, FiniteSets, TLC

VARIABLES
    inst,     \* the constructed objects: a function from a subset of Instances
    last,     \* the operation performed last, its arguments and its result
    owner,    \* the plant's registry: the body each geometry belongs to
    rd        \* the reader threads: accessor in progress and what was read

vars == <<inst, last, owner, rd>>

----------------------------------------------------------------------------
(* Bounds of the model *)

NumInstances == 3
NumBodies == 2
MaxSpeed == 1
NumReaders == 2

Instances == 1..NumInstances
Readers == 1..NumReaders

----------------------------------------------------------------------------
(* Value domains *)

\* BodyIndex values of the plant, and the value of an index that is not valid
BodyIndex == 0..(NumBodies - 1)
InvalidIndex == NumBodies

\* GeometryId is an opaque identifier
GeometryId == {"gA", "gB"}

Speeds == (0 - MaxSpeed)..MaxSpeed

\* derivatives() of an AutoDiffXd: none (a constant) or one unit seed
NoDerivatives == <<>>
Derivatives == {NoDerivatives, <<1>>}

AutoDiff(v, d) == [value |-> v, derivatives |-> d]

\* The scalars of type T
Scalar(T) ==
    IF T = "double" THEN Speeds
    ELSE {AutoDiff(v, d) : v \in Speeds, d \in Derivatives}

\* Vector3<T>
Vector3(T) ==
    IF T = "double" THEN {<<0, 0, 10>>, <<1, 0, 0>>}
    ELSE {<<AutoDiff(0, NoDerivatives), AutoDiff(0, NoDerivatives),
            AutoDiff(10, <<1>>)>>,
          <<AutoDiff(1, NoDerivatives), AutoDiff(0, NoDerivatives),
            AutoDiff(0, NoDerivatives)>>}

\* geometry::PenetrationAsPointPair<T>: the two geometries that penetrate,
\* and the depth
Depths(T) ==
    IF T = "double" THEN {1}
    ELSE {AutoDiff(1, NoDerivatives), AutoDiff(1, <<1>>)}

PenetrationAsPointPair(T) ==
    {q \in [id_A : GeometryId, id_B : GeometryId, depth : Depths(T)] :
        q.id_A # q.id_B}

----------------------------------------------------------------------------
(* The type *)

\* The private members
Members ==
    {"point_pair_", "bodyA_index_", "bodyB_index_", "f_Bc_W_", "p_WC_",
     "separation_speed_", "slip_speed_"}

\* The objects of scalar type T: every member holds a value of its type
ContactInfos(T) ==
    [point_pair_ : PenetrationAsPointPair(T),
     bodyA_index_ : BodyIndex, bodyB_index_ : BodyIndex,
     f_Bc_W_ : Vector3(T), p_WC_ : Vector3(T),
     separation_speed_ : Scalar(T), slip_speed_ : Scalar(T)]

\* A constructor that rejects equal body indexes
PointPairContactInfo_Validating(a, b, f, p, s, v, q) ==
    IF a = b THEN [error |-> "InvalidArgument"]
    ELSE [point_pair_ |-> q, bodyA_index_ |-> a, bodyB_index_ |-> b,
          f_Bc_W_ |-> f, p_WC_ |-> p,
          separation_speed_ |-> s, slip_speed_ |-> v]

\* The constructor: every member is initialised from the argument of its
\* own position; no argument is checked.
PointPairContactInfo(a, b, f, p, s, v, q) ==
    [point_pair_ |-> q, bodyA_index_ |-> a, bodyB_index_ |-> b,
     f_Bc_W_ |-> f, p_WC_ |-> p,
     separation_speed_ |-> s, slip_speed_ |-> v]

\* Accessors that read the neighbouring member
bodyA_index_ReadsB(x) == x.bodyB_index_
bodyB_index_ReadsA(x) == x.bodyA_index_
contact_force_ReadsPoint(x) == x.p_WC_
slip_speed_ReadsSeparation(x) == x.separation_speed_
separation_speed_ReadsSlip(x) == x.slip_speed_

\* The accessors
bodyA_index(x) == x.bodyA_index_
bodyB_index(x) == x.bodyB_index_
contact_force(x) == x.f_Bc_W_
contact_point(x) == x.p_WC_
slip_speed(x) == x.slip_speed_
separation_speed(x) == x.separation_speed_
point_pair(x) == x.point_pair_

Accessors ==
    {"bodyA_index", "bodyB_index", "contact_force", "contact_point",
     "slip_speed", "separation_speed", "point_pair"}

\* The call x.acc()
Call(acc, x) ==
    CASE acc = "bodyA_index" -> bodyA_index(x)
      [] acc = "bodyB_index" -> bodyB_index(x)
      [] acc = "contact_force" -> contact_force(x)
      [] acc = "contact_point" -> contact_point(x)
      [] acc = "slip_speed" -> slip_speed(x)
      [] acc = "separation_speed" -> separation_speed(x)
      [] acc = "point_pair" -> point_pair(x)

----------------------------------------------------------------------------
(* Constructor arguments *)

\* Every tuple of arguments of scalar type T
AllArgs(T) ==
    [T : {T}, a : BodyIndex, b : BodyIndex, f : Vector3(T), p : Vector3(T),
     s : Scalar(T), v : Scalar(T), q : PenetrationAsPointPair(T)]

New(g) == PointPairContactInfo(g.a, g.b, g.f, g.p, g.s, g.v, g.q)

\* The registries of a plant: each geometry belongs to one body
Registries == [GeometryId -> BodyIndex]

NoOp == [op |-> "none", dst |-> 0, src |-> 0, args |-> <<>>, ret |-> <<>>]
NoReaders == [t \in Readers |-> [pc |-> "idle", acc |-> "", buf |-> <<>>]]

----------------------------------------------------------------------------
(* Operations *)

Constructed == DOMAIN inst

Put(i, x) == [j \in Constructed \cup {i} |-> IF j = i THEN x ELSE inst[j]]

\* T x(a, b, f, p, s, v, q): a new object i
Construct(i, g) ==
    /\ i \notin Constructed
    /\ inst' = Put(i, New(g))
    /\ last' = [op |-> "construct", dst |-> i, src |-> 0,
                args |-> <<g>>, ret |-> <<>>]
    /\ UNCHANGED <<owner, rd>>

\* An accessor that resets the member it has read
Access_Resetting(i, acc) ==
    /\ i \in Constructed
    /\ last' = [op |-> acc, dst |-> i, src |-> 0,
                args |-> <<>>, ret |-> <<Call(acc, inst[i])>>]
    /\ inst' = Put(i, [inst[i] EXCEPT !.slip_speed_ = 0])
    /\ UNCHANGED <<owner, rd>>

\* x.acc() on object i
Access(i, acc) ==
    /\ i \in Constructed
    /\ last' = [op |-> acc, dst |-> i, src |-> 0,
                args |-> <<>>, ret |-> <<Call(acc, inst[i])>>]
    /\ UNCHANGED <<inst, owner, rd>>

\* A copy constructor that initialises the two speeds from each other
CopyConstruct_CrossedSpeeds(d, s) ==
    /\ d \notin Constructed
    /\ s \in Constructed
    /\ inst' = Put(d, [inst[s] EXCEPT
                          !.separation_speed_ = inst[s].slip_speed_,
                          !.slip_speed_ = inst[s].separation_speed_])
    /\ last' = [op |-> "copy_construct", dst |-> d, src |-> s,
                args |-> <<>>, ret |-> <<>>]
    /\ UNCHANGED <<owner, rd>>

\* T y(x): a new object d, copied from s
CopyConstruct(d, s) ==
    /\ d \notin Constructed
    /\ s \in Constructed
    /\ inst' = Put(d, inst[s])
    /\ last' = [op |-> "copy_construct", dst |-> d, src |-> s,
                args |-> <<>>, ret |-> <<>>]
    /\ UNCHANGED <<owner, rd>>

\* A copy assignment that exchanges the two objects
CopyAssign_Swapping(d, s) ==
    /\ d \in Constructed
    /\ s \in Constructed
    /\ inst' = [j \in Constructed |->
                   IF j = d THEN inst[s] ELSE IF j = s THEN inst[d] ELSE inst[j]]
    /\ last' = [op |-> "copy_assign", dst |-> d, src |-> s,
                args |-> <<>>, ret |-> <<>>]
    /\ UNCHANGED <<owner, rd>>

\* y = x: every member of d is assigned from s
CopyAssign(d, s) ==
    /\ d \in Constructed
    /\ s \in Constructed
    /\ inst' = Put(d, inst[s])
    /\ last' = [op |-> "copy_assign", dst |-> d, src |-> s,
                args |-> <<>>, ret |-> <<>>]
    /\ UNCHANGED <<owner, rd>>

\* The states a memberwise move can leave its source in.  The scalar,
\* vector and point pair members of T = double are copied.  What is left
\* of a BodyIndex is decided by its own move operations, which the header
\* does not show: the index is kept or is reset to the invalid index.
MovedFrom(x) ==
    {x, [x EXCEPT !.bodyA_index_ = InvalidIndex,
                  !.bodyB_index_ = InvalidIndex]}

\* T y(std::move(x)): a new object d, moved from s
MoveConstruct(d, s) ==
    /\ d \notin Constructed
    /\ s \in Constructed
    /\ \E m \in MovedFrom(inst[s]) :
           inst' = [j \in Constructed \cup {d} |->
                       IF j = d THEN inst[s] ELSE IF j = s THEN m ELSE inst[j]]
    /\ last' = [op |-> "move_construct", dst |-> d, src |-> s,
                args |-> <<>>, ret |-> <<>>]
    /\ UNCHANGED <<owner, rd>>

\* y = std::move(x), of two different objects
MoveAssign(d, s) ==
    /\ d \in Constructed
    /\ s \in Constructed
    /\ d # s
    /\ \E m \in MovedFrom(inst[s]) :
           inst' = [j \in Constructed |->
                       IF j = d THEN inst[s] ELSE IF j = s THEN m ELSE inst[j]]
    /\ last' = [op |-> "move_assign", dst |-> d, src |-> s,
                args |-> <<>>, ret |-> <<>>]
    /\ UNCHANGED <<owner, rd>>

----------------------------------------------------------------------------
(* One object of scalar type double: construction and accessor calls *)

InitCtor ==
    /\ inst = <<>>
    /\ last = NoOp
    /\ owner \in Registries
    /\ rd = NoReaders

ConstructDouble == \E g \in AllArgs("double") : Construct(1, g)
AccessOne == \E acc \in Accessors : Access(1, acc)

NextCtor == ConstructDouble \/ AccessOne

SpecCtor == InitCtor /\ [][NextCtor]_vars

----------------------------------------------------------------------------
(* Claims about construction *)

JustConstructed == last.op = "construct"
Given == last.args[1]
Made == inst[last.dst]

\* The argument in the position the accessor acc reads back
Arg(acc, g) ==
    CASE acc = "bodyA_index" -> g.a
      [] acc = "bodyB_index" -> g.b
      [] acc = "contact_force" -> g.f
      [] acc = "contact_point" -> g.p
      [] acc = "slip_speed" -> g.v
      [] acc = "separation_speed" -> g.s
      [] acc = "point_pair" -> g.q

\* C1: an accessor called on an object right after its construction
\* returns exactly the constructor argument of its own position.
C1_RoundTrip ==
    [][(/\ JustConstructed
        /\ last'.op \in Accessors
        /\ last'.dst = last.dst)
       => last'.ret[1] = Arg(last'.op, Given)]_vars

\* separation_speed() has returned a negative value, of an object whose
\* paired fields all differ
C1_Witness ==
    /\ last.op = "separation_speed"
    /\ last.ret[1] < 0
    /\ slip_speed(Made) >= 0
    /\ bodyA_index(Made) # bodyB_index(Made)
    /\ contact_force(Made) # contact_point(Made)

\* C3 as stated: the two body identifiers of every object differ.
C3_DistinctBodies ==
    \A i \in Constructed : bodyA_index(inst[i]) # bodyB_index(inst[i])

\* C3 amended: the two body identifiers of a constructed object are equal
\* exactly when equal identifiers were passed to its constructor.
C3_DistinctAsGiven ==
    JustConstructed =>
        ((bodyA_index(Made) = bodyB_index(Made)) <=> (Given.a = Given.b))

C3_Witness ==
    /\ JustConstructed
    /\ Given.a = Given.b
    /\ bodyA_index(Made) = bodyB_index(Made)

\* C4 as stated: the slip speed of every object is non-negative.
C4_NonNegativeSlip ==
    \A i \in Constructed : slip_speed(inst[i]) >= 0

\* C4 amended: the slip speed of a constructed object is non-negative
\* exactly when a non-negative slip speed was passed to its constructor.
C4_SlipAsGiven ==
    JustConstructed => ((slip_speed(Made) >= 0) <=> (Given.v >= 0))

C4_Witness ==
    /\ JustConstructed
    /\ Given.v < 0
    /\ Given.s >= 0
    /\ slip_speed(Made) < 0

\* The object names, on both sides, the body that owns the geometry
ConsistentA(x) == bodyA_index(x) = owner[point_pair(x).id_A]
ConsistentB(x) == bodyB_index(x) = owner[point_pair(x).id_B]

\* C6 as stated: every object names the bodies that own the geometries
\* of its point pair.
C6_Consistent ==
    \A i \in Constructed : ConsistentA(inst[i]) /\ ConsistentB(inst[i])

\* C6 amended: a constructed object names the owner of the geometry of a
\* side exactly when the arguments of its constructor did.
C6_ConsistentAsGiven ==
    JustConstructed =>
        /\ ConsistentA(Made) <=> (Given.a = owner[Given.q.id_A])
        /\ ConsistentB(Made) <=> (Given.b = owner[Given.q.id_B])

C6_Witness ==
    /\ JustConstructed
    /\ Given.a # Given.b
    /\ Given.a = owner[Given.q.id_A]
    /\ Given.b # owner[Given.q.id_B]
    /\ ConsistentA(Made)
    /\ ~ConsistentB(Made)

----------------------------------------------------------------------------
(* Several objects of scalar type double and every operation of the type *)

\* Constructor arguments the objects are built from: the two bodies equal
\* or different, the slip speed negative or zero
SampleArgs ==
    {g \in AllArgs("double") :
        /\ g.a = 0 /\ g.b \in {0, 1}
        /\ g.f = <<0, 0, 10>> /\ g.p = <<1, 0, 0>>
        /\ g.s = 0 - 1 /\ g.v \in {0 - 1, 0}
        /\ g.q.id_A = "gA" /\ g.q.id_B = "gB"}

\* The registry that gives geometry gA to body 0 and gB to the last body
PlantRegistry ==
    [x \in GeometryId |-> IF x = "gA" THEN 0 ELSE NumBodies - 1]

Init ==
    /\ inst = <<>>
    /\ last = NoOp
    /\ owner = PlantRegistry
    /\ rd = NoReaders

ConstructSample == \E i \in Instances, g \in SampleArgs : Construct(i, g)
CopyConstructAny == \E d, s \in Instances : CopyConstruct(d, s)
CopyAssignAny == \E d, s \in Instances : CopyAssign(d, s)
MoveConstructAny == \E d, s \in Instances : MoveConstruct(d, s)
MoveAssignAny == \E d, s \in Instances : MoveAssign(d, s)
AccessAny == \E i \in Instances, acc \in Accessors : Access(i, acc)

Next ==
    \/ ConstructSample
    \/ CopyConstructAny
    \/ CopyAssignAny
    \/ MoveConstructAny
    \/ MoveAssignAny
    \/ AccessAny

Spec == Init /\ [][Next]_vars

----------------------------------------------------------------------------
(* Claims about the operations on constructed objects *)

CopyOps == {"copy_construct", "copy_assign"}
MoveOps == {"move_construct", "move_assign"}
AssignOps == {"copy_assign", "move_assign"}

\* C2 as stated: no step changes a member of a constructed object.
C2_Immutable ==
    [][\A i \in Constructed : inst'[i] = inst[i]]_vars

\* C2 amended: a constructed object stays constructed, and a step changes
\* its members only if the step assigns to this object or moves from it;
\* accessor calls and copies made from it leave it as it was.
C2_ChangedOnlyByAssignOrMove ==
    [][\A i \in Constructed :
          /\ i \in DOMAIN inst'
          /\ inst'[i] # inst[i] =>
                \/ last'.op \in AssignOps /\ last'.dst = i
                \/ last'.op \in MoveOps /\ last'.src = i]_vars

\* an object has been copy-assigned to another that held a different value
C2_Witness ==
    /\ last.op = "copy_assign"
    /\ last.dst # last.src
    /\ inst[last.dst] = inst[last.src]
    /\ \E k \in Constructed : inst[k] # inst[last.src]

\* C5: construction is possible with every tuple of arguments, and a
\* construction step ends with the new object holding a value in every
\* member and with every other object and the registry as they were.
C5_ConstructionTotal ==
    /\ [](\A i \in Instances \ Constructed, g \in SampleArgs :
             ENABLED Construct(i, g))
    /\ [][last'.op = "construct" =>
             /\ DOMAIN inst' = Constructed \cup {last'.dst}
             /\ last'.dst \notin Constructed
             /\ inst'[last'.dst] \in ContactInfos("double")
             /\ \A j \in Constructed : inst'[j] = inst[j]
             /\ owner' = owner]_vars

\* an object has been constructed with equal bodies and a negative slip
\* speed, beside another object
C5_Witness ==
    /\ JustConstructed
    /\ Given.a = Given.b
    /\ Given.v < 0
    /\ Made \in ContactInfos("double")
    /\ Cardinality(Constructed) >= 2

C10_AccessorsPure ==
    /\ [](last.op \in Accessors =>
             last.ret[1] = Call(last.op, inst[last.dst]))
    /\ [][last'.op \in Accessors => inst' = inst /\ owner' = owner]_vars

\* slip_speed() has returned a negative value, beside another object
C10_Witness ==
    /\ last.op = "slip_speed"
    /\ last.ret[1] < 0
    /\ Cardinality(Constructed) >= 2

----------------------------------------------------------------------------
(* One object of scalar type AutoDiffXd: construction and accessor calls *)

InitScalar ==
    /\ inst = <<>>
    /\ last = NoOp
    /\ owner = PlantRegistry
    /\ rd = NoReaders

\* Arguments of scalar type AutoDiffXd: every choice of the members that
\* hold scalars, with geometry gA on side A and body 0 as body A
AutoDiffArgs ==
    {g \in AllArgs("AutoDiffXd") :
        g.a = 0 /\ g.q.id_A = "gA"}

ConstructAutoDiff == \E g \in AutoDiffArgs : Construct(1, g)

NextScalar == ConstructAutoDiff \/ AccessOne

SpecScalar == InitScalar /\ [][NextScalar]_vars

\* The value and the derivatives of an AutoDiffXd scalar, vector, point pair
ExtractValue(x) == x.value
ExtractVector(w) == [k \in 1..3 |-> ExtractValue(w[k])]
ExtractPair(q) == [q EXCEPT !.depth = ExtractValue(q.depth)]

\* The arguments of the same construction with scalar type double
PlainArgs(g) ==
    [T |-> "double", a |-> g.a, b |-> g.b,
     f |-> ExtractVector(g.f), p |-> ExtractVector(g.p),
     s |-> ExtractValue(g.s), v |-> ExtractValue(g.v),
     q |-> ExtractPair(g.q)]

\* The value component and the derivative component of what acc returns
ValuePart(acc, r) ==
    CASE acc \in {"bodyA_index", "bodyB_index"} -> r
      [] acc \in {"contact_force", "contact_point"} -> ExtractVector(r)
      [] acc \in {"slip_speed", "separation_speed"} -> ExtractValue(r)
      [] acc = "point_pair" -> ExtractPair(r)

DerivativePart(acc, r) ==
    CASE acc \in {"bodyA_index", "bodyB_index"} -> NoDerivatives
      [] acc \in {"contact_force", "contact_point"} ->
             [k \in 1..3 |-> r[k].derivatives]
      [] acc \in {"slip_speed", "separation_speed"} -> r.derivatives
      [] acc = "point_pair" -> r.depth.derivatives

----------------------------------------------------------------------------
(* Several threads reading one constructed object, with no lock *)

\* The words a reader loads through what the accessor acc returns
Words(acc, x) ==
    CASE acc \in {"bodyA_index", "bodyB_index"} -> <<Call(acc, x)>>
      [] acc \in {"contact_force", "contact_point"} -> Call(acc, x)
      [] acc \in {"slip_speed", "separation_speed"} -> <<Call(acc, x)>>
      [] acc = "point_pair" ->
             <<point_pair(x).id_A, point_pair(x).id_B, point_pair(x).depth>>

InitReaders ==
    /\ \E g \in SampleArgs :
          /\ inst = [i \in {1} |-> New(g)]
          /\ last = [op |-> "construct", dst |-> 1, src |-> 0,
                     args |-> <<g>>, ret |-> <<>>]
    /\ owner = PlantRegistry
    /\ rd = NoReaders

\* thread t calls the accessor acc of the object
BeginRead(t, acc) ==
    /\ rd[t].pc = "idle"
    /\ rd' = [rd EXCEPT ![t] = [pc |-> "reading", acc |-> acc, buf |-> <<>>]]
    /\ UNCHANGED <<inst, last, owner>>

\* A load that clears the contact force behind it
ReadWord_Clearing(t) ==
    /\ rd[t].pc = "reading"
    /\ LET w == Words(rd[t].acc, inst[1])
           b == Append(rd[t].buf, w[Len(rd[t].buf) + 1])
       IN rd' = [rd EXCEPT ![t].buf = b,
                           ![t].pc = IF Len(b) = Len(w) THEN "done"
                                     ELSE "reading"]
    /\ inst' = [inst EXCEPT ![1].f_Bc_W_ = <<0, 0, 0>>]
    /\ UNCHANGED <<last, owner>>

\* thread t loads the next word of the member
ReadWord(t) ==
    /\ rd[t].pc = "reading"
    /\ LET w == Words(rd[t].acc, inst[1])
           b == Append(rd[t].buf, w[Len(rd[t].buf) + 1])
       IN rd' = [rd EXCEPT ![t].buf = b,
                           ![t].pc = IF Len(b) = Len(w) THEN "done"
                                     ELSE "reading"]
    /\ UNCHANGED <<inst, last, owner>>

\* thread t is done with the value
EndRead(t) ==
    /\ rd[t].pc = "done"
    /\ rd' = [rd EXCEPT ![t] = [pc |-> "idle", acc |-> "", buf |-> <<>>]]
    /\ UNCHANGED <<inst, last, owner>>

BeginReadAny == \E t \in Readers, acc \in Accessors : BeginRead(t, acc)
ReadWordAny == \E t \in Readers : ReadWord(t)
EndReadAny == \E t \in Readers : EndRead(t)

NextReaders == BeginReadAny \/ ReadWordAny \/ EndReadAny

SpecReaders == InitReaders /\ [][NextReaders]_vars

\* C7: whatever the interleaving of the readers, the object stays as
\* constructed and the words a reader has loaded are the leading words of
\* the constructor argument the accessor reads back.
C7_ConcurrentReads ==
    /\ inst[1] = New(Given)
    /\ \A t \in Readers :
          rd[t].pc # "idle" =>
              /\ Len(rd[t].buf) <= Len(Words(rd[t].acc, New(Given)))
              /\ rd[t].buf = SubSeq(Words(rd[t].acc, New(Given)),
                                    1, Len(rd[t].buf))
              /\ rd[t].pc = "done" =>
                    rd[t].buf = Words(rd[t].acc, New(Given))

\* one thread has read the whole contact force while another is between
\* two words of it
C7_Witness ==
    \E t, u \in Readers :
        /\ t # u
        /\ rd[t].pc = "done" /\ rd[t].acc = "contact_force"
        /\ rd[t].buf = <<0, 0, 10>>
        /\ rd[u].pc = "reading" /\ rd[u].acc = "contact_force"
        /\ Len(rd[u].buf) = 2

====
